---- MODULE Spec2Model ----
(***************************************************************************)
(* gpt-journal-web: a journal chat whose older entries are folded into     *)
(* summaries.  The model covers the IndexedDB object stores "message" and  *)
(* "summary" (db.ts), the react-query cache of the working context, a      *)
(* tab's send: createCompletion, compressChat, invalidateQueries (the      *)
(* ai.ts half of App.tsx), driven by NewMessageView.send, a second tab on  *)
(* the same database, and the export and import of journal.json.           *)
(***************************************************************************)
EXTENDS Integers, Sequences, FiniteSets, TLC

VARIABLES
    message,    \* object store "message": id -> record            (db.ts:15)
    summary,    \* object store "summary": id -> record            (db.ts:10)
    chat,       \* data of the ["chat"] query, as useGetChat returns it
    value,      \* NewMessageView: the textarea's text
    isSending,  \* NewMessageView: the isSending flag
    pc,         \* where the send of this client stands
    call,       \* the locals of the send in flight
    failedAt,   \* the step whose rejection reached NewMessageView.send's catch
    before,     \* the two object stores as they were when the send started
    now,        \* the wall clock read by new Date()
    nextId,     \* ids handed out so far by uuidv4 (fresh on every call)
    sends,      \* sends started so far
    other,      \* a second tab on the same database: its chat, value,
                \* isSending, pc, call, failedAt and before
    file        \* journal.json: the interchange document last exported

vars == <<message, summary, chat, value, isSending, pc, call, failedAt,
          before, now, nextId, sends, other, file>>

----------------------------------------------------------------------------
(* Bounds *)

MaxSends == 4       \* sends of one behaviour
MaxLen == 4         \* length of a working context handed to compressChat
MaxLevel == 2       \* highest Summary level of such a working context
MaxRecords == 3     \* records of a journal that is exported and imported
MaxTabSends == 2    \* sends of one behaviour of two tabs

(* Program constants *)

MIN_SUMMARY_TOKENS == 4000

\* The sentinel "NULL" of summaryId / parentId; record ids start at 1.
NULL == 0

\* total_tokens values the embeddings provider answers with.
Costs == {3000, 8000}

\* Texts of the textarea, as sequences of characters.
Texts == {<<>>, <<" ">>, <<"a">>}

\* What the completion provider answers: an error, a response without a
\* choice, or a response whose first choice carries text.
CompletionOutcomes == {"error", "nochoice", "ok"}

\* How the readwrite transaction of updateData ends: oncomplete, onerror,
\* or an abort that fires neither handler.
TxOutcomes == {"complete", "error", "abort"}

NoCall == [text |-> <<>>, timestamp |-> 0, chat |-> <<>>, respText |-> "",
           newMessage |-> <<>>, newChat |-> <<>>, messagesForSummary |-> <<>>,
           resultText |-> "", summary |-> <<>>]

EmptyStore == [i \in {} |-> 0]

\* A tab that has just loaded the page and sent nothing.
NoTab == [chat |-> <<>>, value |-> <<>>, isSending |-> FALSE, pc |-> "idle",
          call |-> NoCall, failedAt |-> "",
          before |-> [summary |-> EmptyStore, message |-> EmptyStore]]

\* The interchange document of two empty object stores.
NoFile == [version |-> "1", data |-> [summary |-> <<>>, message |-> <<>>]]

----------------------------------------------------------------------------
(* Helpers *)

Min(S) == CHOOSE x \in S : \A y \in S : x <= y

Max(S) == CHOOSE x \in S : \A y \in S : x >= y

Range(s) == {s[i] : i \in 1..Len(s)}

\* Array.prototype.map.
mapSeq(s, Op(_)) == [i \in 1..Len(s) |-> Op(s[i])]

\* String.prototype.trim on a sequence of characters.
RECURSIVE TrimLeft(_)
TrimLeft(s) == IF s # <<>> /\ Head(s) = " " THEN TrimLeft(Tail(s)) ELSE s

RECURSIVE TrimRight(_)
TrimRight(s) ==
    IF s # <<>> /\ s[Len(s)] = " " THEN TrimRight(SubSeq(s, 1, Len(s) - 1))
    ELSE s

trim(s) == TrimRight(TrimLeft(s))

\* The level the Selector and the Compactor give an item.
ItemLevel(item) == IF item.type = "message" THEN 0 ELSE item.level

----------------------------------------------------------------------------
(* db.ts *)

\* IDBObjectStore.put: insert, or overwrite the record under the same key.
put(store, rec) ==
    [k \in DOMAIN store \cup {rec.id} |-> IF k = rec.id THEN rec ELSE store[k]]

RECURSIVE putAll(_, _)
putAll(store, recs) ==
    IF recs = <<>> THEN store ELSE putAll(put(store, Head(recs)), Tail(recs))

\* The records of a store whose index key is "NULL", in primary-key order,
\* as the cursor over IDBKeyRange.only("NULL") yields them.
RECURSIVE cursor(_, _, _)
cursor(store, field, keys) ==
    IF keys = {} THEN <<>>
    ELSE LET k == Min(keys)
             rest == cursor(store, field, keys \ {k})
         IN  IF store[k][field] = NULL THEN <<store[k]>> \o rest ELSE rest

\* Mutation of getActiveMessages: a cursor over the whole index, without
\* the key range.
getAllMessages(store) ==
    LET keys == DOMAIN store
        nth(i) == CHOOSE k \in keys : Cardinality({j \in keys : j < k}) = i - 1
    IN  [i \in 1..Cardinality(keys) |-> store[nth(i)]]

getActiveMessages(store) == cursor(store, "summaryId", DOMAIN store)

getActiveSummaries(store) == cursor(store, "parentId", DOMAIN store)

\* Mutation of updateData: one transaction per store, so that the puts to
\* "summary" stay when the puts to "message" fail.
updateDataPerStore(stores, summaries, messages, outcome) ==
    IF outcome = "complete"
    THEN [summary |-> putAll(stores.summary, summaries),
          message |-> putAll(stores.message, messages)]
    ELSE [summary |-> putAll(stores.summary, summaries),
          message |-> stores.message]

\* Mutation of updateData: both stores are cleared before the puts, as
\* the import does.
updateDataClearing(stores, summaries, messages, outcome) ==
    IF outcome = "complete"
    THEN [summary |-> putAll(EmptyStore, summaries),
          message |-> putAll(EmptyStore, messages)]
    ELSE stores

\* updateData: one readwrite transaction over both stores.  Its puts are
\* applied together when the transaction completes and not at all otherwise.
updateData(stores, summaries, messages, outcome) ==
    IF outcome = "complete"
    THEN [summary |-> putAll(stores.summary, summaries),
          message |-> putAll(stores.message, messages)]
    ELSE stores

\* Date.prototype.toISOString and new Date(string): the string that
\* denotes an instant, and the instant a string denotes.
toISOString(date) == <<"iso", date>>

newDate(string) == string[2]

\* A cursor over a whole object store: its records in primary-key order.
RECURSIVE allRecords(_, _)
allRecords(store, keys) ==
    IF keys = {} THEN <<>>
    ELSE LET k == Min(keys)
         IN  <<store[k]>> \o allRecords(store, keys \ {k})

\* Mutation of exportSummary: date_to is taken from dateFrom.
exportSummaryOneDate(s) ==
    [id |-> s.id, date_from |-> toISOString(s.dateFrom),
     date_to |-> toISOString(s.dateFrom), content |-> s.content,
     level |-> s.level, tokens_count |-> s.tokensCount,
     parent_id |-> IF s.parentId # NULL THEN <<s.parentId>> ELSE <<>>]

\* exportDataFromIndexedDB, lines 112-120 and 125-132: the document record
\* of a stored record.  A nullable reference of the document is <<>> for
\* null and <<id>> for an id.
exportSummary(s) ==
    [id |-> s.id, date_from |-> toISOString(s.dateFrom),
     date_to |-> toISOString(s.dateTo), content |-> s.content,
     level |-> s.level, tokens_count |-> s.tokensCount,
     parent_id |-> IF s.parentId # NULL THEN <<s.parentId>> ELSE <<>>]

exportMessage(m) ==
    [id |-> m.id, created_at |-> toISOString(m.createdAt),
     user_content |-> m.userContent, assistant_content |-> m.assistantContent,
     tokens_count |-> m.tokensCount,
     summary_id |-> IF m.summaryId # NULL THEN <<m.summaryId>> ELSE <<>>]

exportDataFromIndexedDB(stores) ==
    [version |-> "1",
     data |-> [summary |-> mapSeq(allRecords(stores.summary, DOMAIN stores.summary),
                                  exportSummary),
               message |-> mapSeq(allRecords(stores.message, DOMAIN stores.message),
                                  exportMessage)]]

\* convertImportedData: the stored record of a document record; `?? "NULL"`
\* turns a null reference into the sentinel.
importMessage(msg) ==
    [id |-> msg.id, createdAt |-> newDate(msg.created_at),
     userContent |-> msg.user_content, assistantContent |-> msg.assistant_content,
     tokensCount |-> msg.tokens_count,
     summaryId |-> IF msg.summary_id = <<>> THEN NULL ELSE msg.summary_id[1]]

importSummary(sum) ==
    [id |-> sum.id, dateFrom |-> newDate(sum.date_from),
     dateTo |-> newDate(sum.date_to), content |-> sum.content,
     level |-> sum.level, tokensCount |-> sum.tokens_count,
     parentId |-> IF sum.parent_id = <<>> THEN NULL ELSE sum.parent_id[1]]

convertImportedData(importedData) ==
    [message |-> mapSeq(importedData.data.message, importMessage),
     summary |-> mapSeq(importedData.data.summary, importSummary)]

\* importDataToIndexedDB: one readwrite transaction that clears both stores
\* and puts the converted records; nothing is applied unless it completes.
importDataToIndexedDB(stores, importedData, outcome) ==
    LET convertedData == convertImportedData(importedData)
    IN  IF outcome = "complete"
        THEN [summary |-> putAll(EmptyStore, convertedData.summary),
              message |-> putAll(EmptyStore, convertedData.message)]
        ELSE stores

----------------------------------------------------------------------------
(* ai.ts *)

\* Array.prototype.sort with (a, b) => a.timestamp - b.timestamp: stable.
RECURSIVE insertSorted(_, _)
insertSorted(sorted, item) ==
    IF sorted = <<>> THEN <<item>>
    ELSE IF sorted[Len(sorted)].timestamp <= item.timestamp
         THEN Append(sorted, item)
         ELSE Append(insertSorted(SubSeq(sorted, 1, Len(sorted) - 1), item),
                     sorted[Len(sorted)])

\* Mutation of sortByTimestamp: the array is left in the order of the
\* concatenation.
keepOrder(items) == items

RECURSIVE sortByTimestamp(_)
sortByTimestamp(items) ==
    IF items = <<>> THEN <<>>
    ELSE insertSorted(sortByTimestamp(SubSeq(items, 1, Len(items) - 1)),
                      items[Len(items)])

messageItem(m) ==
    [type |-> "message", timestamp |-> m.createdAt, id |-> m.id,
     createdAt |-> m.createdAt, userContent |-> m.userContent,
     assistantContent |-> m.assistantContent, tokensCount |-> m.tokensCount,
     summaryId |-> m.summaryId]

summaryItem(s) ==
    [type |-> "summary", timestamp |-> s.dateTo, id |-> s.id,
     dateFrom |-> s.dateFrom, dateTo |-> s.dateTo, content |-> s.content,
     level |-> s.level, tokensCount |-> s.tokensCount, parentId |-> s.parentId]

\* Mutation of getChat: the two arrays are sorted one by one, and the
\* Summaries follow the Messages.
getChatSummariesLast(messages, summaries) ==
    sortByTimestamp(mapSeq(getActiveMessages(messages), messageItem))
    \o sortByTimestamp(mapSeq(getActiveSummaries(summaries), summaryItem))

getChat(messages, summaries) ==
    sortByTimestamp(mapSeq(getActiveMessages(messages), messageItem)
                    \o mapSeq(getActiveSummaries(summaries), summaryItem))

\* createCompletion, lines 415-424: the record it appends.
newChatMessage(text, timestamp, respText, tokens, id) ==
    [type |-> "message", timestamp |-> timestamp, id |-> id,
     createdAt |-> timestamp, userContent |-> text,
     assistantContent |-> respText, tokensCount |-> tokens,
     summaryId |-> NULL]

\* Mutation of selectLoop: Math.floor in place of Math.ceil.
RECURSIVE selectLoopFloor(_, _, _, _, _)
selectLoopFloor(items, index, startIndex, level, tokens) ==
    IF index >= Len(items) THEN <<>>
    ELSE LET item == items[index + 1]
             currentLevel == ItemLevel(item)
             currentTokens == item.tokensCount
             same == currentLevel = level
             tokens2 == IF same THEN tokens + currentTokens ELSE currentTokens
             start2 == IF same THEN startIndex ELSE index
         IN  IF start2 # -1 /\ tokens2 >= MIN_SUMMARY_TOKENS * 2
             THEN <<start2, start2 + ((index - start2 + 1) \div 2)>>
             ELSE selectLoopFloor(items, index + 1, start2, currentLevel, tokens2)

\* Mutation of selectLoop: the run is not restarted when the level changes.
RECURSIVE selectLoopNoRestart(_, _, _, _, _)
selectLoopNoRestart(items, index, startIndex, level, tokens) ==
    IF index >= Len(items) THEN <<>>
    ELSE LET item == items[index + 1]
             currentTokens == item.tokensCount
             tokens2 == tokens + currentTokens
             start2 == IF startIndex = -1 THEN index ELSE startIndex
         IN  IF tokens2 >= MIN_SUMMARY_TOKENS * 2
             THEN <<start2, start2 + ((index - start2 + 2) \div 2)>>
             ELSE selectLoopNoRestart(items, index + 1, start2, level, tokens2)

\* Mutation of selectLoop: the threshold is MIN_SUMMARY_TOKENS, not twice it.
RECURSIVE selectLoopOneBudget(_, _, _, _, _)
selectLoopOneBudget(items, index, startIndex, level, tokens) ==
    IF index >= Len(items) THEN <<>>
    ELSE LET item == items[index + 1]
             currentLevel == ItemLevel(item)
             currentTokens == item.tokensCount
             same == currentLevel = level
             tokens2 == IF same THEN tokens + currentTokens ELSE currentTokens
             start2 == IF same THEN startIndex ELSE index
         IN  IF start2 # -1 /\ tokens2 >= MIN_SUMMARY_TOKENS
             THEN <<start2, start2 + ((index - start2 + 2) \div 2)>>
             ELSE selectLoopOneBudget(items, index + 1, start2, currentLevel, tokens2)

\* Mutation of selectLoop: the running cost has to exceed 2*B, not reach it.
RECURSIVE selectLoopStrict(_, _, _, _, _)
selectLoopStrict(items, index, startIndex, level, tokens) ==
    IF index >= Len(items) THEN <<>>
    ELSE LET item == items[index + 1]
             currentLevel == ItemLevel(item)
             currentTokens == item.tokensCount
             same == currentLevel = level
             tokens2 == IF same THEN tokens + currentTokens ELSE currentTokens
             start2 == IF same THEN startIndex ELSE index
         IN  IF start2 # -1 /\ tokens2 > MIN_SUMMARY_TOKENS * 2
             THEN <<start2, start2 + ((index - start2 + 2) \div 2)>>
             ELSE selectLoopStrict(items, index + 1, start2, currentLevel, tokens2)

\* Mutation of selectLoop: the whole run is selected, up to and including
\* the item at which the scan stops.
RECURSIVE selectLoopWholeRun(_, _, _, _, _)
selectLoopWholeRun(items, index, startIndex, level, tokens) ==
    IF index >= Len(items) THEN <<>>
    ELSE LET item == items[index + 1]
             currentLevel == ItemLevel(item)
             currentTokens == item.tokensCount
             same == currentLevel = level
             tokens2 == IF same THEN tokens + currentTokens ELSE currentTokens
             start2 == IF same THEN startIndex ELSE index
         IN  IF start2 # -1 /\ tokens2 >= MIN_SUMMARY_TOKENS * 2
             THEN <<start2, index + 1>>
             ELSE selectLoopWholeRun(items, index + 1, start2, currentLevel, tokens2)

\* Mutation of selectLoop: the running cost is compared with 2*B before the
\* cost of the current item is added to it.
RECURSIVE selectLoopCheckBefore(_, _, _, _, _)
selectLoopCheckBefore(items, index, startIndex, level, tokens) ==
    IF index >= Len(items) THEN <<>>
    ELSE LET item == items[index + 1]
             currentLevel == ItemLevel(item)
             currentTokens == item.tokensCount
             same == currentLevel = level
             tokens1 == IF same THEN tokens ELSE 0
             start2 == IF same THEN startIndex ELSE index
         IN  IF start2 # -1 /\ tokens1 >= MIN_SUMMARY_TOKENS * 2
             THEN <<start2, start2 + ((index - start2 + 2) \div 2)>>
             ELSE selectLoopCheckBefore(items, index + 1, start2, currentLevel,
                                        tokens1 + currentTokens)

\* selectMessagesForSummary: the loop, from `index` (0-based) on, with the
\* values startIndex, level and tokens have when the iteration starts; -1
\* stands for null.  The result is <<startIndex, endIndex>>, or <<>> when
\* the loop ends with endIndex still null.
RECURSIVE selectLoop(_, _, _, _, _)
selectLoop(items, index, startIndex, level, tokens) ==
    IF index >= Len(items) THEN <<>>
    ELSE LET item == items[index + 1]
             currentLevel == ItemLevel(item)
             currentTokens == item.tokensCount
             same == currentLevel = level
             level2 == currentLevel
             tokens2 == IF same THEN tokens + currentTokens ELSE currentTokens
             start2 == IF same THEN startIndex ELSE index
         IN  IF start2 # -1 /\ tokens2 >= MIN_SUMMARY_TOKENS * 2
             THEN LET fullCount == index - start2 + 1
                      summaryCount == (fullCount + 1) \div 2
                  IN  <<start2, start2 + summaryCount>>
             ELSE selectLoop(items, index + 1, start2, level2, tokens2)

selectRange(items) == selectLoop(items, 0, -1, -1, 0)

\* Array.prototype.slice(start, end) on 0-based half-open bounds.
slice(items, start, end) == SubSeq(items, start + 1, end)

selectMessagesForSummary(items) ==
    LET r == selectRange(items)
    IN  IF r = <<>> THEN <<>> ELSE slice(items, r[1], r[2])

\* compressMessages, lines 475-495: dateFrom, dateTo and level after the
\* loop over `items`; -1 stands for null.
RECURSIVE spanLoop(_, _, _, _)
spanLoop(items, dateFrom, dateTo, level) ==
    IF items = <<>> THEN [dateFrom |-> dateFrom, dateTo |-> dateTo, level |-> level]
    ELSE LET item == Head(items)
         IN  IF item.type = "message"
             THEN spanLoop(Tail(items),
                           IF dateFrom # -1 THEN dateFrom ELSE item.createdAt,
                           item.createdAt, 0)
             ELSE spanLoop(Tail(items),
                           IF dateFrom # -1 THEN dateFrom ELSE item.dateFrom,
                           item.dateTo, item.level)

\* Mutation of span: dateFrom is assigned on every iteration (no `??`).
spanLastFrom(items) ==
    LET s == spanLoop(items, -1, -1, -1)
        last == items[Len(items)]
    IN  IF items = <<>> THEN s
        ELSE [s EXCEPT !.dateFrom = IF last.type = "message" THEN last.createdAt
                                    ELSE last.dateFrom]

span(items) == spanLoop(items, -1, -1, -1)

\* compressMessages, line 497: the "Empty summary" error.
throwsEmptySummary(items) ==
    LET s == span(items)
    IN  s.dateFrom = -1 \/ s.dateTo = -1 \/ s.level = -1

\* Mutation of compressMessages: the level of the sources, not one above.
compressMessagesSameLevel(items, resultText, resultTokens, id) ==
    LET s == span(items)
    IN  [type |-> "summary", timestamp |-> s.dateTo, id |-> id,
         dateFrom |-> s.dateFrom, dateTo |-> s.dateTo, content |-> resultText,
         level |-> s.level, tokensCount |-> resultTokens, parentId |-> NULL]

\* compressMessages, lines 514-524: the Summary it returns.
compressMessages(items, resultText, resultTokens, id) ==
    LET s == span(items)
    IN  [type |-> "summary", timestamp |-> s.dateTo, id |-> id,
         dateFrom |-> s.dateFrom, dateTo |-> s.dateTo, content |-> resultText,
         level |-> s.level + 1, tokensCount |-> resultTokens, parentId |-> NULL]

\* Mutation of replaceMessages: the Summaries among the sources are left
\* out of the write.
replaceMessagesOnlyMessages(items, newSummary) ==
    [summaries |-> <<newSummary>>,
     messages |->
        mapSeq(SelectSeq(items, LAMBDA it : it.type = "message"),
               LAMBDA it : [it EXCEPT !.summaryId = newSummary.id])]

\* Mutation of replaceMessages: the new Summary is left out of the write.
replaceMessagesWithoutSummary(items, newSummary) ==
    [summaries |->
        mapSeq(SelectSeq(items, LAMBDA it : it.type = "summary"),
               LAMBDA it : [it EXCEPT !.parentId = newSummary.id]),
     messages |->
        mapSeq(SelectSeq(items, LAMBDA it : it.type = "message"),
               LAMBDA it : [it EXCEPT !.summaryId = newSummary.id])]

\* replaceMessages: the two arrays it hands to updateData.
replaceMessages(items, newSummary) ==
    [summaries |-> <<newSummary>> \o
        mapSeq(SelectSeq(items, LAMBDA it : it.type = "summary"),
               LAMBDA it : [it EXCEPT !.parentId = newSummary.id]),
     messages |->
        mapSeq(SelectSeq(items, LAMBDA it : it.type = "message"),
               LAMBDA it : [it EXCEPT !.summaryId = newSummary.id])]

----------------------------------------------------------------------------
(* The state after construction: empty object stores, an empty query
   result, an empty textarea. *)

Init ==
    /\ message = EmptyStore
    /\ summary = EmptyStore
    /\ chat = <<>>
    /\ value = <<>>
    /\ isSending = FALSE
    /\ pc = "idle"
    /\ call = NoCall
    /\ failedAt = ""
    /\ before = [summary |-> EmptyStore, message |-> EmptyStore]
    /\ now = 0
    /\ nextId = 1
    /\ sends = 0
    /\ other = NoTab
    /\ file = NoFile

stores == [summary |-> summary, message |-> message]

\* Mutation of canSend: the button stays enabled while a send is in
\* flight.
canSendWhileSending == trim(value) # <<>>

\* NewMessageView, line 188.
canSend == trim(value) # <<>> /\ ~isSending

\* The steps of a send that belong to compressChat.
CompactionSteps == {"compressMessages.completion", "compressMessages.embedding",
                    "compressMessages.empty", "replaceMessages.updateData"}

\* The steps of a send that belong to createCompletion.
OrchestratorSteps == {"createCompletion.completion", "createCompletion.embedding",
                      "createCompletion.updateData"}

----------------------------------------------------------------------------
(* NewMessageView *)

\* onChange of the textarea.  A send in flight never reads `value` (it was
\* handed its text at the click, line 195), so typing during a send is the
\* same as typing once it has ended.
SetValue ==
    /\ pc = "idle"
    /\ \E v \in Texts : v # value /\ value' = v
    /\ UNCHANGED <<other, file, message, summary, chat, isSending, pc, call, failedAt,
                   before, now, nextId, sends>>

\* A click on the send button: send() up to createCompletion's first await.
\* usePostMessage.execute reads the clock and takes `chat` from its closure.
Send ==
    /\ canSend
    /\ sends < MaxSends
    /\ isSending' = TRUE
    /\ now' = now + 1
    /\ call' = [NoCall EXCEPT !.text = value, !.timestamp = now + 1, !.chat = chat]
    /\ before' = stores
    /\ sends' = sends + 1
    /\ pc' = "completion"
    /\ UNCHANGED <<other, file, message, summary, chat, value, failedAt, nextId>>

\* send(), after postMessage resolved: setValue(""), setSending(false).
SendReturns ==
    /\ pc = "returned"
    /\ value' = <<>>
    /\ isSending' = FALSE
    /\ pc' = "idle"
    /\ call' = NoCall
    /\ before' = [summary |-> EmptyStore, message |-> EmptyStore]
    /\ UNCHANGED <<other, file, message, summary, chat, failedAt, now, nextId, sends>>

\* send(), catch and finally: the error is logged and alerted as a failed
\* send, then setSending(false).
SendFails ==
    /\ pc = "failed"
    /\ isSending' = FALSE
    /\ pc' = "idle"
    /\ call' = NoCall
    /\ failedAt' = ""
    /\ before' = [summary |-> EmptyStore, message |-> EmptyStore]
    /\ UNCHANGED <<other, file, message, summary, chat, value, now, nextId, sends>>

----------------------------------------------------------------------------
(* createCompletion *)

\* createChatCompletion answers (line 406), and line 411 reads choices[0].
CompletionResponds ==
    /\ pc = "completion"
    /\ \E o \in CompletionOutcomes :
          IF o = "ok"
          THEN /\ call' = [call EXCEPT !.respText = "r"]
               /\ pc' = "embedding"
               /\ UNCHANGED failedAt
          ELSE /\ pc' = "failed"
               /\ failedAt' = "createCompletion.completion"
               /\ UNCHANGED call
    /\ UNCHANGED <<other, file, message, summary, chat, value, isSending, before, now,
                   nextId, sends>>

\* Mutation of EmbeddingResponds: when the embedding request fails, the
\* exchange is stored all the same, with a cost of 0.
EmbeddingRespondsKeepsExchange ==
    /\ pc = "embedding"
    /\ \/ /\ \E tokens \in Costs :
                call' = [call EXCEPT !.newMessage =
                            newChatMessage(call.text, call.timestamp,
                                           call.respText, tokens, nextId)]
          /\ nextId' = nextId + 1
          /\ pc' = "append"
          /\ UNCHANGED <<failedAt, message>>
       \/ /\ message' = put(message, newChatMessage(call.text, call.timestamp,
                                                    call.respText, 0, nextId))
          /\ nextId' = nextId + 1
          /\ pc' = "failed"
          /\ failedAt' = "createCompletion.embedding"
          /\ UNCHANGED call
    /\ UNCHANGED <<other, file, summary, chat, value, isSending, before, now, sends>>

\* createTextEmbedding answers (line 412); lines 413-424 build newMessage.
EmbeddingResponds ==
    /\ pc = "embedding"
    /\ \/ /\ \E tokens \in Costs :
                call' = [call EXCEPT !.newMessage =
                            newChatMessage(call.text, call.timestamp,
                                           call.respText, tokens, nextId)]
          /\ nextId' = nextId + 1
          /\ pc' = "append"
          /\ UNCHANGED failedAt
       \/ /\ pc' = "failed"
          /\ failedAt' = "createCompletion.embedding"
          /\ UNCHANGED <<call, nextId>>
    /\ UNCHANGED <<other, file, message, summary, chat, value, isSending, before, now, sends>>

\* updateData([], [newMessage]) settles (line 425); line 429 returns
\* [...chat, newMessage].
AppendTx ==
    /\ pc = "append"
    /\ \E o \in TxOutcomes :
          LET after == updateData(stores, <<>>, <<call.newMessage>>, o)
          IN  /\ message' = after.message
              /\ summary' = after.summary
              /\ IF o = "complete"
                 THEN /\ call' = [call EXCEPT !.newChat =
                                      Append(call.chat, call.newMessage)]
                      /\ pc' = "compress"
                      /\ UNCHANGED failedAt
                 ELSE /\ pc' = IF o = "error" THEN "failed" ELSE "hung"
                      /\ failedAt' = "createCompletion.updateData"
                      /\ UNCHANGED call
    /\ UNCHANGED <<other, file, chat, value, isSending, before, now, nextId, sends>>

----------------------------------------------------------------------------
(* compressChat *)

\* compressChat, lines 433-435: the selection, the early return on an empty
\* one, and the call of compressMessages on the selected slice.
CompressChat ==
    /\ pc = "compress"
    /\ LET messagesForSummary == selectMessagesForSummary(call.newChat)
       IN  IF Len(messagesForSummary) = 0
           THEN pc' = "invalidate" /\ UNCHANGED call
           ELSE /\ call' = [call EXCEPT !.messagesForSummary = messagesForSummary]
                /\ pc' = "compressMessages"
    /\ UNCHANGED <<other, file, message, summary, chat, value, isSending, failedAt,
                   before, now, nextId, sends>>

\* compressMessages up to its first await: the loop over the slice it was
\* handed (lines 475-495) and the "Empty summary" error (line 497), the
\* only check it makes on the slice.
CompressMessages ==
    /\ pc = "compressMessages"
    /\ IF throwsEmptySummary(call.messagesForSummary)
       THEN pc' = "failed" /\ failedAt' = "compressMessages.empty"
       ELSE pc' = "sumCompletion" /\ UNCHANGED failedAt
    /\ UNCHANGED <<other, file, message, summary, chat, value, isSending, call,
                   before, now, nextId, sends>>

\* compressMessages: createChatCompletion answers (line 501), line 510.
SummaryCompletionResponds ==
    /\ pc = "sumCompletion"
    /\ \E o \in CompletionOutcomes :
          IF o = "ok"
          THEN /\ call' = [call EXCEPT !.resultText = "s"]
               /\ pc' = "sumEmbedding"
               /\ UNCHANGED failedAt
          ELSE /\ pc' = "failed"
               /\ failedAt' = "compressMessages.completion"
               /\ UNCHANGED call
    /\ UNCHANGED <<other, file, message, summary, chat, value, isSending, before, now,
                   nextId, sends>>

\* compressMessages: createTextEmbedding answers (line 511); lines 512-524.
SummaryEmbeddingResponds ==
    /\ pc = "sumEmbedding"
    /\ \/ /\ \E tokens \in Costs :
                call' = [call EXCEPT !.summary =
                            compressMessages(call.messagesForSummary,
                                             call.resultText, tokens, nextId)]
          /\ nextId' = nextId + 1
          /\ pc' = "replace"
          /\ UNCHANGED failedAt
       \/ /\ pc' = "failed"
          /\ failedAt' = "compressMessages.embedding"
          /\ UNCHANGED <<call, nextId>>
    /\ UNCHANGED <<other, file, message, summary, chat, value, isSending, before, now, sends>>

\* replaceMessages: updateData(summaries, messages) settles (line 452).
ReplaceTx ==
    /\ pc = "replace"
    /\ \E o \in TxOutcomes :
          LET w == replaceMessages(call.messagesForSummary, call.summary)
              after == updateData(stores, w.summaries, w.messages, o)
          IN  /\ message' = after.message
              /\ summary' = after.summary
              /\ IF o = "complete"
                 THEN pc' = "invalidate" /\ UNCHANGED failedAt
                 ELSE /\ pc' = IF o = "error" THEN "failed" ELSE "hung"
                      /\ failedAt' = "replaceMessages.updateData"
    /\ UNCHANGED <<other, file, chat, value, isSending, call, before, now, nextId, sends>>

----------------------------------------------------------------------------
(* The ["chat"] query *)

\* Mutation of Invalidate: the pass is run again on the stored context as
\* long as the Selector still selects something.
InvalidateOrCompressAgain ==
    /\ pc = "invalidate"
    /\ LET stored == getChat(message, summary)
       IN  IF Len(selectMessagesForSummary(stored)) > 0
           THEN /\ call' = [call EXCEPT !.newChat = stored]
                /\ pc' = "compress"
                /\ UNCHANGED chat
           ELSE /\ chat' = stored
                /\ pc' = "returned"
                /\ UNCHANGED call
    /\ UNCHANGED <<other, file, message, summary, value, isSending, failedAt, before,
                   now, nextId, sends>>

\* usePostMessage, line 583: invalidateQueries refetches the query.
Invalidate ==
    /\ pc = "invalidate"
    /\ chat' = getChat(message, summary)
    /\ pc' = "returned"
    /\ UNCHANGED <<other, file, message, summary, value, isSending, call, failedAt, before,
                   now, nextId, sends>>

\* useGetChat: react-query refetches a stale query on its own (window
\* focus, reconnect) while no send is in flight.
Refetch ==
    /\ pc = "idle"
    /\ chat # getChat(message, summary)
    /\ chat' = getChat(message, summary)
    /\ UNCHANGED <<other, file, message, summary, value, isSending, pc, call, failedAt,
                   before, now, nextId, sends>>

Next ==
    \/ SetValue
    \/ Send
    \/ CompletionResponds
    \/ EmbeddingResponds
    \/ AppendTx
    \/ CompressChat
    \/ CompressMessages
    \/ SummaryCompletionResponds
    \/ SummaryEmbeddingResponds
    \/ ReplaceTx
    \/ Invalidate
    \/ SendReturns
    \/ SendFails
    \/ Refetch

Spec == Init /\ [][Next]_vars

----------------------------------------------------------------------------
(* compressChat on any working context: the pass alone, started on a
   context of up to MaxLen items of any levels and costs, each item an
   active record of the stores. *)

\* The item at position i (1-based) of such a context: a Message when
\* kind = 0, a Summary of level kind otherwise.
contextItem(i, kind, cost) ==
    IF kind = 0
    THEN [type |-> "message", timestamp |-> i, id |-> i, createdAt |-> i,
          userContent |-> <<"a">>, assistantContent |-> "r",
          tokensCount |-> cost, summaryId |-> NULL]
    ELSE [type |-> "summary", timestamp |-> i, id |-> i, dateFrom |-> i,
          dateTo |-> i, content |-> "s", level |-> kind,
          tokensCount |-> cost, parentId |-> NULL]

storeOf(items, type) ==
    [k \in {it.id : it \in {x \in Range(items) : x.type = type}} |->
        CHOOSE it \in Range(items) : it.id = k]

PassInit ==
    \E n \in 0..MaxLen :
      \E kinds \in [1..n -> 0..MaxLevel], costs \in [1..n -> Costs] :
        LET items == [i \in 1..n |-> contextItem(i, kinds[i], costs[i])]
        IN  /\ message = storeOf(items, "message")
            /\ summary = storeOf(items, "summary")
            /\ chat = items
            /\ value = <<"a">>
            /\ isSending = TRUE
            /\ pc = "compress"
            /\ call = [NoCall EXCEPT !.text = <<"a">>, !.timestamp = n,
                                     !.chat = items, !.newChat = items]
            /\ failedAt = ""
            /\ before = [summary |-> storeOf(items, "summary"),
                         message |-> storeOf(items, "message")]
            /\ now = n
            /\ nextId = n + 1
            /\ sends = 1
            /\ other = NoTab
            /\ file = NoFile

PassNext ==
    \/ CompressChat
    \/ CompressMessages
    \/ SummaryCompletionResponds
    \/ SummaryEmbeddingResponds
    \/ ReplaceTx

PassSpec == PassInit /\ [][PassNext]_vars

----------------------------------------------------------------------------
(* compressChat after appends to an empty store: the pass alone, started
   on a working context of up to MaxLen Messages with strictly increasing
   timestamps, whose costs are those of Costs or the budget B itself. *)

ScenarioInit ==
    \E n \in 1..MaxLen :
      \E costs \in [1..n -> Costs \cup {MIN_SUMMARY_TOKENS}] :
        LET items == [i \in 1..n |-> contextItem(i, 0, costs[i])]
        IN  /\ message = storeOf(items, "message")
            /\ summary = EmptyStore
            /\ chat = SubSeq(items, 1, n - 1)
            /\ value = <<"a">>
            /\ isSending = TRUE
            /\ pc = "compress"
            /\ call = [NoCall EXCEPT !.text = <<"a">>, !.timestamp = n,
                                     !.chat = SubSeq(items, 1, n - 1),
                                     !.newChat = items]
            /\ failedAt = ""
            /\ before = [summary |-> EmptyStore,
                         message |-> storeOf(items, "message")]
            /\ now = n
            /\ nextId = n + 1
            /\ sends = n
            /\ other = NoTab
            /\ file = NoFile

ScenarioSpec == ScenarioInit /\ [][PassNext]_vars

----------------------------------------------------------------------------
(* Two tabs of one browser on the same database: each has its own query
   result, textarea and send, and both write to the same two object
   stores.  The variables chat, value, isSending, pc, call, failedAt and
   before are those of the tab that takes the next step; `other` holds
   those of the tab that waits. *)

\* The event loop of the other tab gets the next turn.
SwitchTab ==
    /\ chat' = other.chat
    /\ value' = other.value
    /\ isSending' = other.isSending
    /\ pc' = other.pc
    /\ call' = other.call
    /\ failedAt' = other.failedAt
    /\ before' = other.before
    /\ other' = [chat |-> chat, value |-> value, isSending |-> isSending,
                 pc |-> pc, call |-> call, failedAt |-> failedAt,
                 before |-> before]
    /\ UNCHANGED <<file, message, summary, now, nextId, sends>>

\* Both tabs have loaded a journal that holds one Message, which a first
\* send has stored and no pass has compacted.
TwoInit ==
    LET items == <<contextItem(1, 0, Min(Costs))>>
    IN  /\ message = storeOf(items, "message")
        /\ summary = EmptyStore
        /\ chat = items
        /\ value = <<>>
        /\ isSending = FALSE
        /\ pc = "idle"
        /\ call = NoCall
        /\ failedAt = ""
        /\ before = [summary |-> EmptyStore, message |-> EmptyStore]
        /\ now = 1
        /\ nextId = 2
        /\ sends = 0
        /\ other = [NoTab EXCEPT !.chat = items]
        /\ file = NoFile

TwoNext ==
    \/ SwitchTab
    \/ SetValue
    \/ Send /\ sends < MaxTabSends
    \/ CompletionResponds
    \/ EmbeddingResponds
    \/ AppendTx
    \/ CompressChat
    \/ CompressMessages
    \/ SummaryCompletionResponds
    \/ SummaryEmbeddingResponds
    \/ ReplaceTx
    \/ Invalidate
    \/ SendReturns
    \/ SendFails
    \/ Refetch

TwoSpec == TwoInit /\ [][TwoNext]_vars

----------------------------------------------------------------------------
(* updateData on any id: the append of createCompletion and the write of
   replaceMessages alone, started on a working context of up to MaxLen
   items with the new record under any id, an id of the stores included. *)

AppendInit ==
    \E n \in 1..MaxLen :
      \E kinds \in [1..n -> 0..MaxLevel], costs \in [1..n -> Costs] :
        \E id \in 1..(n + 1), step \in {"append", "replace"} :
          LET items == [i \in 1..n |-> contextItem(i, kinds[i], costs[i])]
              sel == selectMessagesForSummary(items)
          IN  /\ step = "replace" => sel # <<>>
              /\ message = storeOf(items, "message")
              /\ summary = storeOf(items, "summary")
              /\ chat = items
              /\ value = <<"a">>
              /\ isSending = TRUE
              /\ pc = step
              /\ call = IF step = "append"
                        THEN [NoCall EXCEPT
                                !.text = <<"a">>, !.timestamp = n + 1,
                                !.chat = items, !.respText = "r",
                                !.newMessage =
                                    newChatMessage(<<"a">>, n + 1, "r",
                                                   Min(Costs), id)]
                        ELSE [NoCall EXCEPT
                                !.text = <<"a">>, !.timestamp = n,
                                !.chat = items, !.newChat = items,
                                !.messagesForSummary = sel, !.resultText = "s",
                                !.summary =
                                    compressMessages(sel, "s", Min(Costs), id)]
              /\ failedAt = ""
              /\ before = [summary |-> storeOf(items, "summary"),
                           message |-> storeOf(items, "message")]
              /\ now = n + 1
              /\ nextId = n + 1
              /\ sends = 1
              /\ other = NoTab
              /\ file = NoFile

AppendNext ==
    \/ AppendTx
    \/ ReplaceTx

AppendSpec == AppendInit /\ [][AppendNext]_vars

----------------------------------------------------------------------------
(* compressMessages on any slice: the Compactor alone, handed any stretch
   of a working context of up to MaxLen items, the empty stretch and
   stretches of several levels included. *)

CompactInit ==
    \E n \in 0..MaxLen :
      \E kinds \in [1..n -> 0..MaxLevel], costs \in [1..n -> Costs] :
        \E a \in 1..(n + 1) : \E b \in (a - 1)..n :
          LET items == [i \in 1..n |-> contextItem(i, kinds[i], costs[i])]
          IN  /\ message = storeOf(items, "message")
              /\ summary = storeOf(items, "summary")
              /\ chat = items
              /\ value = <<"a">>
              /\ isSending = TRUE
              /\ pc = "compressMessages"
              /\ call = [NoCall EXCEPT
                            !.text = <<"a">>, !.timestamp = n, !.chat = items,
                            !.newChat = items,
                            !.messagesForSummary = SubSeq(items, a, b)]
              /\ failedAt = ""
              /\ before = [summary |-> storeOf(items, "summary"),
                           message |-> storeOf(items, "message")]
              /\ now = n
              /\ nextId = n + 1
              /\ sends = 1
              /\ other = NoTab
              /\ file = NoFile

CompactNext ==
    \/ CompressMessages
    \/ SummaryCompletionResponds
    \/ SummaryEmbeddingResponds
    \/ ReplaceTx

CompactSpec == CompactInit /\ [][CompactNext]_vars

----------------------------------------------------------------------------
(* HeaderView: export and import of journal.json, on any journal of up to
   MaxRecords records.  The file handed to import is the one the last
   export saved; before any export it holds an empty journal. *)

\* exportDb: exportDataFromIndexedDB, then saveAs.
ExportDb ==
    /\ pc = "idle"
    /\ file' = exportDataFromIndexedDB(stores)
    /\ UNCHANGED <<other, message, summary, chat, value, isSending, pc, call,
                   failedAt, before, now, nextId, sends>>

\* importDb, input.onchange up to the end of importData; a rejected import
\* is caught and logged, and the query is then left as it is.
ImportData ==
    /\ pc = "idle"
    /\ \E o \in {"complete", "error"} :
          LET after == importDataToIndexedDB(stores, file, o)
          IN  /\ message' = after.message
              /\ summary' = after.summary
              /\ IF o = "complete"
                 THEN pc' = "imported" /\ before' = stores
                 ELSE UNCHANGED <<pc, before>>
    /\ UNCHANGED <<other, file, chat, value, isSending, call, failedAt, now,
                   nextId, sends>>

\* importDb, input.onchange: invalidateQueries after the import.
ImportInvalidate ==
    /\ pc = "imported"
    /\ chat' = getChat(message, summary)
    /\ pc' = "idle"
    /\ before' = [summary |-> EmptyStore, message |-> EmptyStore]
    /\ UNCHANGED <<other, file, message, summary, value, isSending, call,
                   failedAt, now, nextId, sends>>

\* Instants of the records of a journal.
Times == {1, 2}

\* The record with id i of a journal, as a send stores it: a Message when
\* kind = 0, a Summary of level kind otherwise, under the parent given.
journalRecord(i, kind, time, parent) ==
    IF kind = 0
    THEN [contextItem(i, kind, Min(Costs)) EXCEPT
            !.timestamp = time, !.createdAt = time, !.summaryId = parent]
    ELSE [contextItem(i, kind, Min(Costs)) EXCEPT
            !.timestamp = time, !.dateFrom = Min(Times), !.dateTo = time,
            !.parentId = parent]

\* The parents a record of a journal may have: none, or a Summary of the
\* journal one level above it.
Parents(kinds, i) == {NULL} \cup {j \in DOMAIN kinds : kinds[j] = kinds[i] + 1}

IOInit ==
    \E n \in 0..MaxRecords :
      \E kinds \in [1..n -> 0..MaxLevel], times \in [1..n -> Times] :
        \E parents \in [1..n -> {NULL} \cup 1..n] :
          LET items == [i \in 1..n |->
                          journalRecord(i, kinds[i], times[i], parents[i])]
          IN  /\ \A i \in 1..n : parents[i] \in Parents(kinds, i)
              /\ message = storeOf(items, "message")
              /\ summary = storeOf(items, "summary")
              /\ chat = <<>>
              /\ value = <<>>
              /\ isSending = FALSE
              /\ pc = "idle"
              /\ call = NoCall
              /\ failedAt = ""
              /\ before = [summary |-> EmptyStore, message |-> EmptyStore]
              /\ now = Max(Times)
              /\ nextId = n + 1
              /\ sends = 0
              /\ other = NoTab
              /\ file = NoFile

IONext ==
    \/ ExportDb
    \/ ImportData
    \/ ImportInvalidate
    \/ Refetch

IOSpec == IOInit /\ [][IONext]_vars

----------------------------------------------------------------------------
(* Vocabulary of the claims: the same-level runs of a working context,
   stated on 0-based indexes *)

LevelAt(items, i) == ItemLevel(items[i + 1])

\* The first index of the maximal same-level run that ends at index i.
RunStart(items, i) ==
    Min({j \in 0..i : \A k \in j..i : LevelAt(items, k) = LevelAt(items, i)})

RECURSIVE CostOf(_, _, _)
CostOf(items, from, to) ==
    IF from > to THEN 0
    ELSE items[from + 1].tokensCount + CostOf(items, from + 1, to)

\* The running cost of the current run when the scan stands at index i.
RunCost(items, i) == CostOf(items, RunStart(items, i), i)

Reaches(items, i) == RunCost(items, i) >= 2 * MIN_SUMMARY_TOKENS

Qualifies(items) == \E i \in 0..(Len(items) - 1) : Reaches(items, i)

FirstReach(items) == Min({i \in 0..(Len(items) - 1) : Reaches(items, i)})

CeilHalf(n) == IF n % 2 = 0 THEN n \div 2 ELSE n \div 2 + 1

\* <<start, end>> of the half-open range of the older half of the first
\* run that reaches 2*B.
OlderHalf(items) ==
    LET i == FirstReach(items)
        runStart == RunStart(items, i)
        len == i - runStart + 1
    IN  <<runStart, runStart + CeilHalf(len)>>

\* The pass has made its selection.
Selected == pc # "compress"

----------------------------------------------------------------------------
(* Vocabulary of the claims: records and their parents *)

\* The parent reference of a stored record, and the records under a Summary.
Children(k) ==
    {message[j] : j \in {i \in DOMAIN message : message[i].summaryId = k}}
    \cup {summary[j] : j \in {i \in DOMAIN summary : summary[i].parentId = k}}

MessageChildren(k) == {j \in DOMAIN message : message[j].summaryId = k}

SummaryChildren(k) == {j \in DOMAIN summary : summary[j].parentId = k}

\* The parent reference the stores hold for an item of the working context.
StoredParent(item) ==
    IF item.type = "message" THEN message[item.id].summaryId
    ELSE summary[item.id].parentId

IsStored(item) ==
    IF item.type = "message" THEN item.id \in DOMAIN message
    ELSE item.id \in DOMAIN summary

\* The send in flight has built a Summary and handed it to replaceMessages.
SummaryBuilt ==
    \/ pc = "replace"
    \/ pc \in {"invalidate", "returned"} /\ call.messagesForSummary # <<>>
    \/ pc \in {"failed", "hung"} /\ failedAt = "replaceMessages.updateData"

\* The compaction pass of the send in flight has failed.
PassFailed == pc \in {"failed", "hung"} /\ failedAt \in CompactionSteps

----------------------------------------------------------------------------
(* Claims *)

\* C1: over any sequence of sends and compactions, successful or failed, no
\* record leaves its store, a parent reference that is set never changes
\* again, and a parent reference that changes becomes the id of a stored
\* Summary.
C1_ParentSetOnce ==
    [][ /\ \A k \in DOMAIN message :
             /\ k \in DOMAIN message'
             /\ message[k].summaryId # NULL =>
                    message'[k].summaryId = message[k].summaryId
             /\ message'[k].summaryId # message[k].summaryId =>
                    message'[k].summaryId \in DOMAIN summary'
        /\ \A k \in DOMAIN summary :
             /\ k \in DOMAIN summary'
             /\ summary[k].parentId # NULL =>
                    summary'[k].parentId = summary[k].parentId
             /\ summary'[k].parentId # summary[k].parentId =>
                    summary'[k].parentId \in DOMAIN summary' ]_vars

\* C1 witness: a compaction is applied while records compacted by earlier
\* sends are in the stores: a Summary with a Message under it has itself
\* been put under a newer Summary.
C1_Witness ==
    \E k \in DOMAIN summary :
        /\ summary[k].parentId # NULL
        /\ MessageChildren(k) # {}
        /\ pc = "invalidate"

\* C2: a Summary and the reparenting of its sources are visible together.
\* No stored parent reference names a Summary that is not stored; and once
\* the pass has built its Summary, either it is not stored and every
\* selected source is active, or it is stored and every selected source
\* points to it.  After a failed transaction it is the first of the two.
C2_SummaryWithSources ==
    /\ \A k \in DOMAIN message :
          message[k].summaryId # NULL => message[k].summaryId \in DOMAIN summary
    /\ \A k \in DOMAIN summary :
          summary[k].parentId # NULL => summary[k].parentId \in DOMAIN summary
    /\ SummaryBuilt =>
          LET sel == call.messagesForSummary
              id == call.summary.id
          IN  /\ \A i \in 1..Len(sel) : IsStored(sel[i])
              /\ IF id \in DOMAIN summary
                 THEN \A i \in 1..Len(sel) : StoredParent(sel[i]) = id
                 ELSE /\ \A i \in 1..Len(sel) : StoredParent(sel[i]) = NULL
                      /\ Children(id) = {}
              /\ pc \in {"failed", "hung"} => id \notin DOMAIN summary
              /\ pc \in {"invalidate", "returned"} => id \in DOMAIN summary

\* C2 witness: the transaction of a compaction with two sources has
\* completed.
C2_Witness ==
    /\ pc = "invalidate"
    /\ Len(call.messagesForSummary) = 2
    /\ call.summary.id \in DOMAIN summary
    /\ Cardinality(Children(call.summary.id)) = 2

\* C2 witness for the failed transaction of a compaction with two sources.
C2_WitnessFailed ==
    /\ pc = "failed"
    /\ failedAt = "replaceMessages.updateData"
    /\ Len(call.messagesForSummary) = 2

\* C3: when the completion request or the embedding request of
\* createCompletion fails (an error, or a response without a choice), the
\* send fails and both stores are as they were when the send started.
C3_ProviderFailureNoMessage ==
    (pc = "failed" /\ failedAt \in {"createCompletion.completion",
                                     "createCompletion.embedding"}) =>
        /\ stores = before
        /\ call.newChat = <<>>

\* C3 witness: the embedding request of a send fails while the stores hold
\* records of earlier sends.
C3_Witness ==
    /\ pc = "failed"
    /\ failedAt = "createCompletion.embedding"
    /\ DOMAIN message # {}
    /\ DOMAIN summary # {}

\* C4: when the compaction pass fails (a provider, or the transaction of
\* replaceMessages) after the Message of the send was appended, the stores
\* are the ones from the start of the send plus that Message, which is
\* active: no Summary and no reparenting of the failed pass is stored.
C4_FailedPassKeepsMessage ==
    PassFailed =>
        /\ call.newMessage.id \in DOMAIN message
        /\ call.newMessage.id \notin DOMAIN before.message
        /\ message[call.newMessage.id] = call.newMessage
        /\ message[call.newMessage.id].summaryId = NULL
        /\ message = put(before.message, call.newMessage)
        /\ summary = before.summary

\* C4 witness: the transaction of replaceMessages fails for a selection of
\* two sources.
C4_Witness ==
    /\ PassFailed
    /\ failedAt = "replaceMessages.updateData"
    /\ Len(call.messagesForSummary) = 2
    /\ DOMAIN summary # {}

\* C5, as claimed: a failure of the compaction pass never reaches the catch
\* of NewMessageView.send, so it is not reported as a failed send.
C5_PassFailureNotReported ==
    pc = "failed" => failedAt \notin CompactionSteps

\* C9: for every Summary, the records under it are of one level and the
\* Summary's level is that level plus one (a Message counts as level 0).
C9_SummaryLevel ==
    \A k \in DOMAIN summary :
        /\ MessageChildren(k) \cup SummaryChildren(k) # {}
        /\ \A j \in MessageChildren(k) : summary[k].level = 0 + 1
        /\ \A j \in SummaryChildren(k) : summary[k].level = summary[j].level + 1

\* C9 witness: a Summary of level 2 with two Summaries under it.
C9_Witness ==
    \E k \in DOMAIN summary :
        /\ summary[k].level = 2
        /\ Cardinality(SummaryChildren(k)) = 2

\* C10: for every Summary, dateFrom is the earliest and dateTo the latest
\* timestamp among the records under it: createdAt of a Message, dateFrom
\* and dateTo of a Summary.
C10_SummarySpan ==
    \A k \in DOMAIN summary :
        LET stamps == {message[j].createdAt : j \in MessageChildren(k)}
                      \cup {summary[j].dateFrom : j \in SummaryChildren(k)}
                      \cup {summary[j].dateTo : j \in SummaryChildren(k)}
        IN  /\ stamps # {}
            /\ summary[k].dateFrom = Min(stamps)
            /\ summary[k].dateTo = Max(stamps)

\* C10 witness: a Summary over a Summary that spans more than one
\* timestamp, itself over two Messages.
C10_Witness ==
    \E k \in DOMAIN summary :
        \E j \in SummaryChildren(k) :
            /\ summary[j].dateFrom < summary[j].dateTo
            /\ summary[k].dateFrom = summary[j].dateFrom
            /\ Cardinality(MessageChildren(j)) = 2

\* C6: whenever some same-level run of the working context reaches 2*B,
\* the Selector returns the items of [runStart, runStart + ceil(len/2)),
\* where i is the first index at which the running cost of the current run
\* reaches 2*B, runStart the first index of that run and
\* len = i - runStart + 1; runs that qualify later are ignored.
C6_FirstRunOlderHalf ==
    (Selected /\ Qualifies(call.newChat)) =>
        LET r == OlderHalf(call.newChat)
        IN  /\ selectRange(call.newChat) = r
            /\ call.messagesForSummary = SubSeq(call.newChat, r[1] + 1, r[2])

\* C6 witness: the selection is the first two items of a run of three, and
\* the run after it reaches 2*B as well.
C6_Witness ==
    /\ Selected
    /\ Len(call.newChat) = 4
    /\ Qualifies(call.newChat)
    /\ OlderHalf(call.newChat) = <<0, 2>>
    /\ FirstReach(call.newChat) = 2
    /\ Reaches(call.newChat, 3)
    /\ RunStart(call.newChat, 3) = 3
    /\ Len(call.messagesForSummary) = 2

\* C7: every non-empty selection of the Selector is a contiguous range of
\* the working context whose items all have one level, a Message counting
\* as level 0.
C7_SelectionOneLevel ==
    LET sel == call.messagesForSummary
        ctx == call.newChat
    IN  (Selected /\ Len(sel) > 0) =>
            /\ \E a \in 1..Len(ctx) : \E b \in a..Len(ctx) : sel = SubSeq(ctx, a, b)
            /\ \A i, j \in 1..Len(sel) : ItemLevel(sel[i]) = ItemLevel(sel[j])

\* C7 witness: a selection of two items whose neighbours on both sides have
\* another level.
C7_Witness ==
    LET sel == call.messagesForSummary
        ctx == call.newChat
    IN  /\ Selected
        /\ Len(sel) = 2
        /\ Len(ctx) = 4
        /\ sel = SubSeq(ctx, 2, 3)
        /\ ItemLevel(ctx[1]) # ItemLevel(ctx[2])
        /\ ItemLevel(ctx[4]) = ItemLevel(ctx[2])

\* C8: when no same-level run of the working context reaches 2*B (the
\* empty context included), the selection is empty and the pass ends at
\* once: no provider request, no id drawn, both stores as they were.
C8_NoRunNoEffect ==
    ~Qualifies(call.newChat) =>
        /\ pc \in {"compress", "invalidate"}
        /\ selectMessagesForSummary(call.newChat) = <<>>
        /\ call.messagesForSummary = <<>>
        /\ call.summary = <<>>
        /\ failedAt = ""
        /\ nextId = Len(call.newChat) + 1
        /\ stores = before

\* C8 witness: the pass has ended on a context whose total cost reaches
\* 2*B while no single run does.
C8_Witness ==
    /\ pc = "invalidate"
    /\ ~Qualifies(call.newChat)
    /\ Len(call.newChat) = 3
    /\ CostOf(call.newChat, 0, 2) >= 2 * MIN_SUMMARY_TOKENS

\* C8 witness for the empty context.
C8_WitnessEmpty == pc = "invalidate" /\ call.newChat = <<>>

\* The timestamp the Assembler orders an item by.
OrderingStamp(item) == IF item.type = "message" THEN item.createdAt ELSE item.dateTo

ActiveIds(store, field) == {k \in DOMAIN store : store[k][field] = NULL}

\* `items` holds the active records of the two stores, Messages and
\* Summaries together and each once, in ascending order of their ordering
\* timestamps.
IsAssembly(items, messages, summaries) ==
    LET ofType(t) == {i \in 1..Len(items) : items[i].type = t}
    IN  /\ {items[i].id : i \in ofType("message")} = ActiveIds(messages, "summaryId")
        /\ {items[i].id : i \in ofType("summary")} = ActiveIds(summaries, "parentId")
        /\ Len(items) = Cardinality(ActiveIds(messages, "summaryId"))
                          + Cardinality(ActiveIds(summaries, "parentId"))
        /\ \A i \in ofType("message") :
               /\ items[i].createdAt = messages[items[i].id].createdAt
               /\ items[i].tokensCount = messages[items[i].id].tokensCount
               /\ items[i].summaryId = NULL
        /\ \A i \in ofType("summary") :
               /\ items[i].dateTo = summaries[items[i].id].dateTo
               /\ items[i].dateFrom = summaries[items[i].id].dateFrom
               /\ items[i].level = summaries[items[i].id].level
               /\ items[i].tokensCount = summaries[items[i].id].tokensCount
               /\ items[i].parentId = NULL
        /\ \A i, j \in 1..Len(items) :
               i < j => OrderingStamp(items[i]) <= OrderingStamp(items[j])

\* A stored record that came from an import: it has the fields of the
\* document and no others.
Imported(rec) == "type" \notin DOMAIN rec

\* C11: a step that gives the query a new result leaves both stores as
\* they are, and the result is exactly the records whose parent reference
\* is null, Messages and Summaries together, each once, in ascending order
\* of createdAt (Message) and dateTo (Summary).
C11_AssemblerActiveSorted ==
    [][chat' # chat =>
          /\ message' = message
          /\ summary' = summary
          /\ IsAssembly(chat', message, summary)]_vars

\* C11 witness: after an import, the query result is an imported active
\* Message at T1 followed by an imported active Summary at T2 > T1, and the
\* stores hold a third record, which has a parent.
C11_Witness ==
    /\ pc = "idle"
    /\ Len(chat) = 2
    /\ chat[1].type = "message" /\ chat[2].type = "summary"
    /\ chat[1].id \in DOMAIN message /\ Imported(message[chat[1].id])
    /\ chat[2].id \in DOMAIN summary /\ Imported(summary[chat[2].id])
    /\ chat[1].createdAt < chat[2].dateTo
    /\ Cardinality(DOMAIN message) + Cardinality(DOMAIN summary) = 3

\* What tells one item of a working context from another.
Key(item) == <<item.type, item.id>>

Keys(items) == [i \in 1..Len(items) |-> Key(items[i])]

\* The active working context the stores hold.
Active == getChat(message, summary)

\* C12: the step that applies a compaction leaves the relative order of
\* the remaining active records as it was and puts the new Summary where
\* its sources were: the sources are one stretch of the active working
\* context, and afterwards the context is what came before that stretch,
\* then the new Summary, then what came after it.
C12_SummaryTakesPlace ==
    [][(pc = "replace" /\ pc' = "invalidate") =>
          LET ctx == Active
              sel == call.messagesForSummary
          IN  \E a \in 1..Len(ctx) :
                  LET b == a + Len(sel) - 1
                  IN  /\ b <= Len(ctx)
                      /\ Keys(SubSeq(ctx, a, b)) = Keys(sel)
                      /\ getChat(message', summary') = SubSeq(ctx, 1, a - 1)
                                    \o <<summaryItem(summary'[call.summary.id])>>
                                    \o SubSeq(ctx, b + 1, Len(ctx))]_vars

\* C12 witness: a compaction has been applied, and its Summary stands
\* between an older and a newer active record.
C12_Witness ==
    /\ pc = "invalidate"
    /\ call.summary # <<>>
    /\ \E p \in 2..(Len(Active) - 1) :
           /\ Key(Active[p]) = Key(call.summary)
           /\ Active[p - 1].timestamp < Active[p].timestamp
           /\ Active[p].timestamp < Active[p + 1].timestamp

\* The cost of the items of `items` at the 0-based indexes of S.
RECURSIVE CostAt(_, _)
CostAt(items, S) ==
    IF S = {} THEN 0
    ELSE LET k == Min(S) IN items[k + 1].tokensCount + CostAt(items, S \ {k})

\* The send in flight has applied a compaction.
CompactionApplied == pc = "invalidate" /\ call.summary # <<>>

\* The 0-based indexes of the compacted run, from its start to the item at
\* which the scan stopped, whose items are still active.
RunRest(items) ==
    LET i == FirstReach(items)
    IN  {k \in RunStart(items, i)..i :
            IsStored(items[k + 1]) /\ StoredParent(items[k + 1]) = NULL}

\* C13, as the claim states it: immediately after a compaction has been
\* applied, the cost of the active working context is at most B plus the
\* cost of one item, here its most expensive one.
C13_ContextWithinBudget ==
    CompactionApplied =>
        CostAt(Active, 0..(Len(Active) - 1))
            <= MIN_SUMMARY_TOKENS
               + Max({Active[k].tokensCount : k \in 1..Len(Active)})

\* C13, amended: immediately after a compaction has been applied, what is
\* left active of the compacted run (from its start to the item at which
\* the scan stopped) is at most half of its items, rounded down, and costs
\* less than 2*B plus the cost of that last item.  The cost of the whole
\* active working context has no such bound.
C13_RunRestBounded ==
    CompactionApplied =>
        LET ctx == call.newChat
            i == FirstReach(ctx)
            len == i - RunStart(ctx, i) + 1
        IN  /\ Qualifies(ctx)
            /\ Cardinality(RunRest(ctx)) <= len \div 2
            /\ CostAt(ctx, RunRest(ctx))
                   < 2 * MIN_SUMMARY_TOKENS + ctx[i + 1].tokensCount

\* C13 witness: a compaction has been applied, part of its run is still
\* active, and the active working context costs more than B plus its
\* most expensive item.
C13_Witness ==
    /\ CompactionApplied
    /\ RunRest(call.newChat) # {}
    /\ CostAt(Active, 0..(Len(Active) - 1))
           > MIN_SUMMARY_TOKENS
             + Max({Active[k].tokensCount : k \in 1..Len(Active)})

\* Two Message records, or two Summary records, with the same id and
\* contents; the parent reference apart.
SameMessage(a, b) ==
    /\ a.id = b.id
    /\ a.createdAt = b.createdAt
    /\ a.userContent = b.userContent
    /\ a.assistantContent = b.assistantContent
    /\ a.tokensCount = b.tokensCount

SameSummary(a, b) ==
    /\ a.id = b.id
    /\ a.dateFrom = b.dateFrom
    /\ a.dateTo = b.dateTo
    /\ a.content = b.content
    /\ a.level = b.level
    /\ a.tokensCount = b.tokensCount

\* C14, as the claim states it: whatever the operation (send, compaction,
\* import, export), every stored record stays stored under its id with its
\* contents, and its parent reference stays as it is or goes from null to
\* an id.
C14_RecordsKept ==
    [][ /\ \A k \in DOMAIN message :
             /\ k \in DOMAIN message'
             /\ SameMessage(message[k], message'[k])
             /\ message'[k].summaryId # message[k].summaryId =>
                    message[k].summaryId = NULL
        /\ \A k \in DOMAIN summary :
             /\ k \in DOMAIN summary'
             /\ SameSummary(summary[k], summary'[k])
             /\ summary'[k].parentId # summary[k].parentId =>
                    summary[k].parentId = NULL ]_vars

\* C15, as the claim states it: an append of a Message or of a Summary
\* under an id its store already holds is rejected, and the record stored
\* under that id keeps its value.
C15_CollisionRejected ==
    /\ (call.newMessage # <<>> /\ call.newMessage.id \in DOMAIN before.message
           /\ pc # "append") =>
            /\ pc = "failed"
            /\ message[call.newMessage.id] = before.message[call.newMessage.id]
    /\ (call.summary # <<>> /\ call.summary.id \in DOMAIN before.summary
           /\ pc # "replace") =>
            /\ pc = "failed"
            /\ summary[call.summary.id] = before.summary[call.summary.id]

\* C16, as the claim states it: when the slice handed to the Compactor is
\* empty or holds items of more than one level, the attempt fails with an
\* error at once: no provider request, no Summary, no store write.
C16_BadSliceFails ==
    LET sel == call.messagesForSummary
    IN  (\/ sel = <<>>
         \/ \E i, j \in 1..Len(sel) : ItemLevel(sel[i]) # ItemLevel(sel[j])) =>
            /\ pc \in {"compressMessages", "failed"}
            /\ pc = "failed" => failedAt = "compressMessages.empty"
            /\ stores = before

\* C17, as the claim states it: when the sends of two tabs overlap, their
\* compactions do not meet on a record: no record is a source of the
\* Summaries both sends have stored, that is, reparented by both.
C17_NoSharedSource ==
    (/\ call.summary # <<>>
     /\ other.call.summary # <<>>
     /\ call.summary.id \in DOMAIN summary
     /\ other.call.summary.id \in DOMAIN summary) =>
        Range(Keys(call.messagesForSummary))
            \cap Range(Keys(other.call.messagesForSummary)) = {}

\* A step of the send in flight.
SendStep ==
    \/ CompletionResponds
    \/ EmbeddingResponds
    \/ AppendTx
    \/ CompressChat
    \/ CompressMessages
    \/ SummaryCompletionResponds
    \/ SummaryEmbeddingResponds
    \/ ReplaceTx
    \/ Invalidate
    \/ SendReturns
    \/ SendFails

\* C18, as the claim states it: a send in flight always has a step left
\* that takes it on towards its return, whatever the outcome of its store
\* transactions; no send stays pending with nothing left to wake it.
C18_SendNeverStuck == isSending => ENABLED SendStep

\* Two states of the object stores that hold the same records: the same
\* ids in each collection, and under each id the same fields and the same
\* parent reference.
SameStores(a, b) ==
    /\ DOMAIN a.message = DOMAIN b.message
    /\ DOMAIN a.summary = DOMAIN b.summary
    /\ \A k \in DOMAIN a.message :
           /\ SameMessage(a.message[k], b.message[k])
           /\ a.message[k].summaryId = b.message[k].summaryId
    /\ \A k \in DOMAIN a.summary :
           /\ SameSummary(a.summary[k], b.summary[k])
           /\ a.summary[k].parentId = b.summary[k].parentId

\* The nullable references of a document: null exactly for the records
\* that are active in `st`.
NullForActive(doc, st) ==
    /\ \A i \in 1..Len(doc.data.message) :
           (doc.data.message[i].summary_id = <<>>)
               <=> (st.message[doc.data.message[i].id].summaryId = NULL)
    /\ \A i \in 1..Len(doc.data.summary) :
           (doc.data.summary[i].parent_id = <<>>)
               <=> (st.summary[doc.data.summary[i].id].parentId = NULL)

\* C19: when the journal that was exported from the stores is imported
\* into them, the stores hold the same records as before: the same ids in
\* both collections, the same fields and the same parent references; a
\* null parent is null in the document and active after the import, a
\* parent id comes back as the same id.
C19_RoundTrip ==
    (pc = "imported" /\ file = exportDataFromIndexedDB(before)) =>
        /\ SameStores(stores, before)
        /\ NullForActive(file, before)
        /\ ActiveIds(message, "summaryId") = ActiveIds(before.message, "summaryId")
        /\ ActiveIds(summary, "parentId") = ActiveIds(before.summary, "parentId")

\* C19 witness: the journal exported from stores that a send has written
\* has been imported; the stores held a Message and a Summary with a
\* parent and an active Summary that spans two instants, and every record
\* is now the imported one.
C19_Witness ==
    /\ pc = "imported"
    /\ file = exportDataFromIndexedDB(before)
    /\ \E k \in DOMAIN before.message :
           /\ before.message[k].summaryId # NULL
           /\ ~Imported(before.message[k])
           /\ Imported(message[k])
    /\ \E k \in DOMAIN before.summary : before.summary[k].parentId # NULL
    /\ \E k \in DOMAIN before.summary :
           /\ before.summary[k].parentId = NULL
           /\ before.summary[k].dateFrom < before.summary[k].dateTo
           /\ Imported(summary[k])

\* The working context of the pass is two Messages of cost B each, the
\* only records of the stores when the pass starts.
TwoMessagesOfCostB ==
    /\ Len(call.newChat) = 2
    /\ \A i \in 1..2 :
           /\ call.newChat[i].type = "message"
           /\ call.newChat[i].tokensCount = MIN_SUMMARY_TOKENS
    /\ call.newChat[1].createdAt < call.newChat[2].createdAt
    /\ DOMAIN before.message = {call.newChat[1].id, call.newChat[2].id}
    /\ before.summary = EmptyStore

\* C20: with budget B, after two Messages of cost B each were appended to
\* an empty store with strictly increasing timestamps, the pass of the
\* second send selects exactly the older Message; once the pass has been
\* applied the stores hold one Summary, active and of level 1, whose only
\* source is the first Message, and the second Message is still active.
C20_TwoMessagesOfCostB ==
    TwoMessagesOfCostB =>
        LET first == call.newChat[1]
            second == call.newChat[2]
        IN  /\ Selected => call.messagesForSummary = <<first>>
            /\ pc = "invalidate" =>
                   /\ DOMAIN summary = {call.summary.id}
                   /\ summary[call.summary.id].level = 1
                   /\ summary[call.summary.id].parentId = NULL
                   /\ MessageChildren(call.summary.id) = {first.id}
                   /\ SummaryChildren(call.summary.id) = {}
                   /\ message[second.id].summaryId = NULL
                   /\ Keys(Active) = <<Key(call.summary), Key(second)>>

\* C20 witness: the pass on two Messages of cost B each has been applied.
C20_Witness ==
    /\ TwoMessagesOfCostB
    /\ pc = "invalidate"
    /\ DOMAIN summary # {}

\* The item at index i (0-based) starts a run, its own cost reaches 2*B,
\* and no run reaches 2*B before it.
FirstAlone(items, i) ==
    /\ i = 0 \/ LevelAt(items, i - 1) # LevelAt(items, i)
    /\ items[i + 1].tokensCount >= 2 * MIN_SUMMARY_TOKENS
    /\ \A j \in 0..(i - 1) : ~Reaches(items, j)

\* C21: when no earlier run reaches 2*B, an item that starts a run and
\* whose own cost reaches 2*B is selected alone, and the Summary of the
\* applied compaction has that item as its single source; in a context
\* of levels 0, 1, 0, 1 whose items all cost 2*B or more, the selection is
\* the first item.
C21_SingleItemRun ==
    LET ctx == call.newChat
    IN  \A i \in 0..(Len(ctx) - 1) :
            (Selected /\ FirstAlone(ctx, i)) =>
                /\ call.messagesForSummary = <<ctx[i + 1]>>
                /\ pc = "invalidate" =>
                       /\ Cardinality(Children(call.summary.id)) = 1
                       /\ \A c \in Children(call.summary.id) : Key(c) = Key(ctx[i + 1])
                       /\ StoredParent(ctx[i + 1]) = call.summary.id

\* C21 witness: the compaction has been applied on a context of levels
\* 0, 1, 0, 1 whose items all cost 2*B or more, and its source is the
\* first item.
C21_Witness ==
    LET ctx == call.newChat
    IN  /\ pc = "invalidate"
        /\ Len(ctx) = 4
        /\ \A i \in 1..4 : /\ ItemLevel(ctx[i]) = (i + 1) % 2
                             /\ ctx[i].tokensCount >= 2 * MIN_SUMMARY_TOKENS
        /\ call.messagesForSummary = <<ctx[1]>>
        /\ StoredParent(ctx[1]) = call.summary.id

\* C21 witness: the item selected alone is not the first of the context,
\* and the run before it stays below 2*B.
C21_WitnessLater ==
    LET ctx == call.newChat
    IN  /\ pc = "invalidate"
        /\ Len(ctx) = 4
        /\ FirstAlone(ctx, 2)
        /\ LevelAt(ctx, 0) = LevelAt(ctx, 1)
        /\ call.messagesForSummary = <<ctx[3]>>

\* Every source of the slice handed to replaceMessages is active in the
\* stores.
SourcesActive ==
    \A i \in 1..Len(call.messagesForSummary) :
        /\ IsStored(call.messagesForSummary[i])
        /\ StoredParent(call.messagesForSummary[i]) = NULL

\* C22: after every successful compaction the working context returned by
\* the Assembler has strictly fewer items than just before it.
C22_StrictlyFewer ==
    [][(pc = "replace" /\ pc' = "invalidate") =>
          Len(getChat(message', summary')) < Len(Active)]_vars

\* C22, amended: a successful compaction whose sources are all active
\* takes its sources out of the working context and puts one Summary in:
\* the context has Len(sources) - 1 fewer items than just before, never
\* more, and strictly fewer exactly when there are two or more sources.
C22_FewerBySources ==
    [][(pc = "replace" /\ pc' = "invalidate" /\ SourcesActive) =>
          LET n == Len(call.messagesForSummary)
              after == Len(getChat(message', summary'))
          IN  /\ n >= 1
              /\ after = Len(Active) - n + 1
              /\ after <= Len(Active)
              /\ (after < Len(Active)) <=> (n >= 2)]_vars

\* C22 witnesses: a compaction of one source has been applied and the
\* working context is as long as it was when the pass began; and a
\* compaction of two sources has been applied.
C22_Witness ==
    /\ CompactionApplied
    /\ Len(call.messagesForSummary) = 1
    /\ Len(Active) = Len(getChat(before.message, before.summary)) + 1
    /\ \A i \in 1..Len(call.newChat) : IsStored(call.newChat[i])

C22_WitnessTwo ==
    /\ CompactionApplied
    /\ Len(call.messagesForSummary) >= 2
    /\ Len(Active) = Len(getChat(before.message, before.summary)) + 2
                        - Len(call.messagesForSummary)

\* C23: the working context a send works from is the active set of the
\* stores, after any sequence of earlier sends: the transcript is built
\* from the items that were active when the send started, and the
\* Selector runs on the items that are active after the append.
C23_ContextIsActiveSet ==
    /\ pc \in {"completion", "embedding", "append"} =>
           call.chat = getChat(before.message, before.summary)
    /\ pc = "compress" => call.newChat = Active

\* The Summaries stored since the send in flight started.
NewSummaries == DOMAIN summary \ DOMAIN before.summary

\* C24: each send performs at most one compaction: at most one Summary is
\* stored between the start of a send and its end, also when the stored
\* context still holds a run reaching 2*B after that compaction.
C24_OneCompactionPerSend ==
    isSending =>
        /\ Cardinality(NewSummaries) <= 1
        /\ (pc = "returned" /\ Qualifies(Active)) => chat = Active

\* C24 witness: the send has returned from its pass with one new Summary
\* stored, and the stored context still holds a run reaching 2*B.
C24_Witness ==
    /\ pc = "returned"
    /\ Cardinality(NewSummaries) = 1
    /\ Qualifies(Active)

\* The parent references of the stored records, NULL included.
ParentOf(kind, id) ==
    IF kind = "message" THEN message[id].summaryId ELSE summary[id].parentId

\* The record reached from <<kind, id>> by following parent references, in
\* at most `fuel` steps: <<"cycle">> when the steps run out, <<"dangling">>
\* when a parent names no stored Summary.
RECURSIVE Root(_, _, _)
Root(kind, id, fuel) ==
    LET parent == ParentOf(kind, id)
    IN  IF parent = NULL THEN <<kind, id>>
        ELSE IF parent \notin DOMAIN summary THEN <<"dangling">>
        ELSE IF fuel = 0 THEN <<"cycle">>
        ELSE Root("summary", parent, fuel - 1)

StoredKeys ==
    {<<"message", i>> : i \in DOMAIN message}
    \cup {<<"summary", i>> : i \in DOMAIN summary}

ActiveKeys == {Key(Active[i]) : i \in 1..Len(Active)}

\* C25: the compaction history is a forest whose roots are the active
\* set: every non-null parent names a stored Summary, no chain of parents
\* comes back to itself, and the chain from every stored record (every
\* Message in particular) ends at one active record.
C25_HistoryIsForest ==
    LET roots == ActiveKeys
        fuel == Cardinality(DOMAIN summary)
    IN  /\ \A k \in StoredKeys :
               /\ ParentOf(k[1], k[2]) # NULL =>
                      ParentOf(k[1], k[2]) \in DOMAIN summary
               /\ Root(k[1], k[2], fuel) \in roots
        /\ roots = {k \in StoredKeys : Root(k[1], k[2], 0) = k}

\* C25 witness: a Message whose parent is a Summary that has a parent of
\* its own, which is active.
C25_Witness ==
    \E i \in DOMAIN message :
        LET p == message[i].summaryId
        IN  /\ p # NULL /\ p \in DOMAIN summary
            /\ summary[p].parentId # NULL
            /\ Root("message", i, Cardinality(DOMAIN summary)) \in ActiveKeys
            /\ Root("message", i, Cardinality(DOMAIN summary))
                   = <<"summary", summary[p].parentId>>

\* The levels of a working context never increase from oldest to newest.
LevelsNonIncreasing(items) ==
    \A i \in 1..(Len(items) - 1) : ItemLevel(items[i]) >= ItemLevel(items[i + 1])

\* C26: from an empty store, after any sequence of sends (each followed
\* by its pass, successful or not), the levels of the working context are
\* non-increasing from oldest to newest.
C26_LevelsNonIncreasing == LevelsNonIncreasing(Active)

\* The keys of the slice handed to replaceMessages.
SourceKeys == {Key(call.messagesForSummary[i]) : i \in 1..Len(call.messagesForSummary)}

\* C27: a successful compaction adds one Summary and changes only the
\* parent reference of the selected sources: every other record is
\* unchanged, and every other field of a source keeps its stored value.
C27_OnlyParentsChange ==
    [][(pc = "replace" /\ pc' = "invalidate") =>
          LET id == call.summary.id
          IN  /\ id \notin DOMAIN summary
              /\ DOMAIN summary' = DOMAIN summary \cup {id}
              /\ summary'[id] = call.summary
              /\ DOMAIN message' = DOMAIN message
              /\ \A i \in DOMAIN message :
                     message'[i] = IF <<"message", i>> \in SourceKeys
                                   THEN [message[i] EXCEPT !.summaryId = id]
                                   ELSE message[i]
              /\ \A i \in DOMAIN summary :
                     summary'[i] = IF <<"summary", i>> \in SourceKeys
                                   THEN [summary[i] EXCEPT !.parentId = id]
                                   ELSE summary[i]]_vars

\* C27 witness: a compaction has been applied whose sources include a
\* Summary, while the stores hold active and inactive records that are
\* not among its sources.
C27_Witness ==
    /\ CompactionApplied
    /\ \E k \in SourceKeys : k[1] = "summary" /\ ParentOf(k[1], k[2]) = call.summary.id
    /\ \E k \in StoredKeys \ SourceKeys :
           /\ k # <<"summary", call.summary.id>>
           /\ ParentOf(k[1], k[2]) = NULL
    /\ \E k \in StoredKeys \ SourceKeys :
           ParentOf(k[1], k[2]) \notin {NULL, call.summary.id}

\* C28: whenever the run the Selector stops on has two or more items, the
\* selection leaves out the item at which the scan stopped; so the last
\* item of the context (the Message a send has just appended) is selected
\* only when it forms a run of length 1 whose cost reaches 2*B.
C28_LastScannedExcluded ==
    LET ctx == call.newChat
        sel == call.messagesForSummary
        selKeys == {Key(sel[k]) : k \in 1..Len(sel)}
        last == Len(ctx) - 1
    IN  (Selected /\ Qualifies(ctx)) =>
            LET i == FirstReach(ctx)
            IN  /\ i - RunStart(ctx, i) + 1 >= 2 => Key(ctx[i + 1]) \notin selKeys
                /\ Key(ctx[last + 1]) \in selKeys =>
                       /\ sel = <<ctx[last + 1]>>
                       /\ RunStart(ctx, last) = last
                       /\ ctx[last + 1].tokensCount >= 2 * MIN_SUMMARY_TOKENS

\* C28 witnesses: the scan stopped on the last item of a run of three, and
\* the selection is the first two; and the last item of a longer context
\* was selected alone.
C28_Witness ==
    LET ctx == call.newChat
    IN  /\ Selected /\ Qualifies(ctx)
        /\ FirstReach(ctx) = Len(ctx) - 1
        /\ FirstReach(ctx) - RunStart(ctx, FirstReach(ctx)) + 1 = 3
        /\ Len(call.messagesForSummary) = 2
        /\ Key(ctx[Len(ctx)]) \notin SourceKeys

C28_WitnessAlone ==
    LET ctx == call.newChat
    IN  /\ Selected /\ Len(ctx) >= 2
        /\ call.messagesForSummary = <<ctx[Len(ctx)]>>

\* C29: within one client a send starts only when no other send of that
\* client is in flight and the text is not blank, and sending is enabled
\* again once the send has ended, with success or with failure; so the
\* appends and compactions of one client belong to one send at a time.
C29_OneSendAtATime ==
    [][/\ sends' = sends + 1 =>
              /\ ~isSending /\ pc = "idle"
              /\ trim(value) # <<>>
              /\ isSending'
       /\ (isSending /\ ~isSending') =>
              /\ pc \in {"returned", "failed"}
              /\ pc' = "idle"
       /\ (pc \in {"returned", "failed"} /\ pc' = "idle") => ~isSending'
       /\ (message' # message \/ summary' # summary) =>
              /\ isSending /\ isSending'
              /\ call'.timestamp = call.timestamp]_vars

\* C29, the other half: once no send is in flight, a text that is not
\* blank can be sent.
C29_EnabledAgain ==
    (pc = "idle" /\ trim(value) # <<>> /\ sends < MaxSends) => ENABLED Send

\* C29 witness: a send has ended as failed, the text it kept is not
\* blank, and the next send has started.
C29_Witness ==
    /\ sends = 2
    /\ pc = "completion"
    /\ isSending
    /\ DOMAIN message # {}
    /\ chat = <<>>

====
